---- MODULE Spec2Model ----
(***************************************************************************)
(* Model of the two mpmath invokers of Galaxon.BigNumbers' test suite:     *)
(*   BigNumbers.Tests/Python/call_unary_math_function.py                   *)
(*   BigNumbers.Tests/Python/call_binary_math_function.py                  *)
(* One run of a script is one process: main() is executed statement by     *)
(* statement, each statement one action.  The operating system may start   *)
(* the same command line again (Rerun), which is a fresh process.          *)
(***************************************************************************)
EXTENDS Integers, Sequences, FiniteSets, TLC

VARIABLES prog, argv, pc, function_name, x, y, precision, dps, dps_assigned,
          func, result, stdout, stderr, exit_code, run, prev

vars == <<prog, argv, pc, function_name, x, y, precision, dps, dps_assigned,
          func, result, stdout, stderr, exit_code, run, prev>>

(* ------------------------------ bounds -------------------------------- *)

\* Largest number of command-line arguments after the script name.
MaxArgs == 5
\* Number of distinct addresses the runtime may give a freshly built object.
MaxAddr == 2
\* Number of times the same command line is run.
MaxRuns == 2

(* -------------------------- the command line --------------------------- *)

Progs == {"unary", "binary"}

\* Function names tried: attributes of the mpmath module of every sort, and
\* one name the module does not have.
Names == {"sqrt", "atan2", "log", "workdps", "inf", "mp", "libmp",
          "__name__", "bogus_fn"}

\* Operand and precision texts, as sequences of characters.
ValueTexts == { <<"2">>, <<"5", "0">>, <<"0">>, <<"-", "5">>,
                <<"0", ".", "5">>, <<"i", "n", "f">>, <<"a", "b", "c">> }

\* sys.argv[1:] of length n: a name first, texts after it.
ArgLists(n) ==
    IF n = 0 THEN { <<>> }
    ELSE { <<nm>> \o t : nm \in Names, t \in [1..(n - 1) -> ValueTexts] }

\* sys.argv[i], 0-based as in Python (argv[0] is the script).
Arg(i) == argv[i + 1]

\* A local of main() that is not bound yet.
Unbound == [kind |-> "unbound"]

(* ------------------------------ int(s) --------------------------------- *)

Digits == {"0", "1", "2", "3", "4", "5", "6", "7", "8", "9"}

DigitVal(c) ==
    CASE c = "0" -> 0 [] c = "1" -> 1 [] c = "2" -> 2 [] c = "3" -> 3
      [] c = "4" -> 4 [] c = "5" -> 5 [] c = "6" -> 6 [] c = "7" -> 7
      [] c = "8" -> 8 [] c = "9" -> 9

IsDigits(t) == Len(t) > 0 /\ \A i \in 1..Len(t) : t[i] \in Digits

Signed(t) == Len(t) > 0 /\ t[1] \in {"+", "-"}

Unsigned(t) == IF Signed(t) THEN Tail(t) ELSE t

RECURSIVE NatOf(_)
NatOf(t) == IF Len(t) = 0 THEN 0
            ELSE 10 * NatOf(SubSeq(t, 1, Len(t) - 1)) + DigitVal(t[Len(t)])

\* int(s) returns: an optional sign and decimal digits.
IntValid(t) == IsDigits(Unsigned(t))

IntOf(t) == IF Signed(t) /\ t[1] = "-" THEN 0 - NatOf(Unsigned(t))
            ELSE NatOf(Unsigned(t))

(* --------------------------- mpmath.mpf(s) ----------------------------- *)

SpecialTexts == { <<"i", "n", "f">>, <<"n", "a", "n">> }

DotAt(t) == { i \in 1..Len(t) : t[i] = "." }

\* digits with at most one decimal point and at least one digit
IsDecimal(t) ==
    /\ Cardinality(DotAt(t)) <= 1
    /\ \A i \in 1..Len(t) : t[i] \in Digits \cup {"."}
    /\ \E i \in 1..Len(t) : t[i] \in Digits

MpfValidLenient(t) == TRUE

\* mpf(s) returns for a signed decimal or a special token (inf, nan) and
\* raises ValueError for any other text.
MpfValid(t) == Unsigned(t) \in SpecialTexts \/ IsDecimal(Unsigned(t))

\* The value mpf(s) builds: sign, the digits of the text and the position of
\* the point, represented at the precision that is active when it is built.
MpfOf(t, d) ==
    LET u == Unsigned(t)
        neg == Signed(t) /\ t[1] = "-"
    IN IF u \in SpecialTexts
       THEN [kind |-> "mpf", special |-> u, neg |-> neg, digits |-> <<>>,
             frac |-> 0, dps |-> d]
       ELSE [kind |-> "mpf", special |-> <<>>, neg |-> neg,
             digits |-> SelectSeq(u, LAMBDA c : c \in Digits),
             frac |-> IF DotAt(u) = {} THEN 0
                      ELSE Len(u) - (CHOOSE i \in DotAt(u) : TRUE),
             dps |-> d]

(* ------------------------- the mpmath module --------------------------- *)

\* mpmath.mp.dps when the module has just been imported.
DefaultDps == 15

\* mp.dps of a process that starts after one whose mp.dps was d: every
\* process imports mpmath afresh.
StartDps(d) == DefaultDps

\* What assigning n to mpmath.mp.dps leaves in mp.dps: the setter takes any
\* integer and keeps at least one digit.
DpsAfterSet(n) == IF n < 1 THEN 1 ELSE n

\* The attributes of the mpmath module that the names tried can hit.  A
\* function accepts between lo and hi positional arguments.
Attribute(nm) ==
    CASE nm = "sqrt"     -> [kind |-> "function", name |-> nm, lo |-> 1, hi |-> 1]
      [] nm = "atan2"    -> [kind |-> "function", name |-> nm, lo |-> 2, hi |-> 2]
      [] nm = "log"      -> [kind |-> "function", name |-> nm, lo |-> 1, hi |-> 2]
      [] nm = "workdps"  -> [kind |-> "function", name |-> nm, lo |-> 1, hi |-> 2]
      [] nm = "inf"      -> [kind |-> "constant", name |-> nm, lo |-> 0, hi |-> 0]
      [] nm = "mp"       -> [kind |-> "context", name |-> nm, lo |-> 0, hi |-> 0]
      [] nm = "libmp"    -> [kind |-> "module", name |-> nm, lo |-> 0, hi |-> 0]
      [] nm = "__name__" -> [kind |-> "dunder", name |-> nm, lo |-> 0, hi |-> 0]

\* getattr(mpmath, name) succeeds exactly for the attributes of the module.
HasAttr(nm) == nm \in {"sqrt", "atan2", "log", "workdps", "inf", "mp",
                       "libmp", "__name__"}

\* func(...) with n positional arguments raises TypeError when func is not
\* callable or does not take n arguments.
Callable(f, n) == f.kind = "function" /\ f.lo <= n /\ n <= f.hi

IsZero(v) == v.special = <<>> /\ \A i \in 1..Len(v.digits) : v.digits[i] = "0"

\* The value a call returns.  workdps builds a context-manager object whose
\* text is the default one, with the object's address a; the mathematical
\* functions return a number computed at the active precision d, or a special
\* value.
Return(f, args, d, a) ==
    IF f.name = "workdps"
    THEN [kind |-> "object", type |-> "PrecisionManager", addr |-> a]
    ELSE IF f.name = "log" /\ Len(args) = 1 /\ IsZero(args[1])
    THEN [kind |-> "special", token |-> "-inf"]
    ELSE IF f.name = "sqrt" /\ args[1].special = <<"i", "n", "f">> /\ ~args[1].neg
    THEN [kind |-> "special", token |-> "+inf"]
    ELSE [kind |-> "number", fn |-> f.name, args |-> args, dps |-> d]

\* str(result), the line print(result) writes, at the active precision d.
Str(v, d) == [kind |-> "line", of |-> v,
              digits |-> IF v.kind = "number" THEN d ELSE 0]

UsageLine(p) == [kind |-> "usage", script |-> p]

NotFoundLine(nm) == [kind |-> "not_found", name |-> nm]

(* ------------------------------ main() --------------------------------- *)

ExpectedLenSwapped(p) == IF p = "unary" THEN 5 ELSE 4

\* len(sys.argv) each script insists on.
ExpectedLen(p) == IF p = "unary" THEN 4 ELSE 5

CallArgsSwapped == IF prog = "unary" THEN <<x>> ELSE <<y, x>>

\* The arguments of the call: func(x), func(x, y).
CallArgs == IF prog = "unary" THEN <<x>> ELSE <<x, y>>

Fresh ==
    /\ pc = "check_argc"
    /\ function_name = Unbound /\ x = Unbound /\ y = Unbound
    /\ precision = Unbound /\ func = Unbound /\ result = Unbound
    /\ dps_assigned = FALSE
    /\ stdout = <<>> /\ stderr = <<>> /\ exit_code = 0

Init ==
    /\ prog \in Progs
    /\ \E n \in 0..MaxArgs : \E a \in ArgLists(n) : argv = <<prog>> \o a
    /\ Fresh
    /\ dps = DefaultDps
    /\ run = 1
    /\ prev = Unbound

\* sys.exit(1), or the interpreter ending on an uncaught exception.
Exit(code, out, err) ==
    /\ pc' = "exited"
    /\ exit_code' = code
    /\ stdout' = out
    /\ stderr' = err

Raise(exc) == Exit(1, stdout, Append(stderr, exc))

Goto(l) == pc' = l /\ UNCHANGED <<stdout, stderr, exit_code>>

\* if len(sys.argv) != N: print(usage); sys.exit(1)
CheckArgc ==
    /\ pc = "check_argc"
    /\ IF Len(argv) # ExpectedLen(prog)
       THEN Exit(1, Append(stdout, UsageLine(prog)), stderr)
       ELSE Goto("bind_name")
    /\ UNCHANGED <<prog, argv, function_name, x, y, precision, dps,
                   dps_assigned, func, result, run, prev>>

\* function_name = sys.argv[1]
BindName ==
    /\ pc = "bind_name"
    /\ function_name' = Arg(1)
    /\ Goto("parse_x")
    /\ UNCHANGED <<prog, argv, x, y, precision, dps, dps_assigned, func,
                   result, run, prev>>

\* x = mpmath.mpf(sys.argv[2])
ParseX ==
    /\ pc = "parse_x"
    /\ IF MpfValid(Arg(2))
       THEN /\ x' = MpfOf(Arg(2), dps)
            /\ Goto(IF prog = "unary" THEN "parse_precision" ELSE "parse_y")
       ELSE /\ Raise("ValueError")
            /\ UNCHANGED x
    /\ UNCHANGED <<prog, argv, function_name, y, precision, dps, dps_assigned,
                   func, result, run, prev>>

\* y = mpmath.mpf(sys.argv[3])          (binary script only)
ParseY ==
    /\ pc = "parse_y"
    /\ IF MpfValid(Arg(3))
       THEN /\ y' = MpfOf(Arg(3), dps)
            /\ Goto("parse_precision")
       ELSE /\ Raise("ValueError")
            /\ UNCHANGED y
    /\ UNCHANGED <<prog, argv, function_name, x, precision, dps, dps_assigned,
                   func, result, run, prev>>

\* precision = int(sys.argv[3])         (sys.argv[4] in the binary script)
ParsePrecision ==
    /\ pc = "parse_precision"
    /\ LET t == Arg(ExpectedLen(prog) - 1)
       IN IF IntValid(t)
          THEN /\ precision' = [kind |-> "int", n |-> IntOf(t)]
               /\ Goto("set_dps")
          ELSE /\ Raise("ValueError")
               /\ UNCHANGED precision
    /\ UNCHANGED <<prog, argv, function_name, x, y, dps, dps_assigned, func,
                   result, run, prev>>

\* mpmath.mp.dps = precision
SetDps ==
    /\ pc = "set_dps"
    /\ dps' = DpsAfterSet(precision.n)
    /\ dps_assigned' = TRUE
    /\ Goto("resolve")
    /\ UNCHANGED <<prog, argv, function_name, x, y, precision, func, result,
                   run, prev>>

\* try: func = getattr(mpmath, function_name)
\* except AttributeError: print(f"Function {function_name} not found ..."); sys.exit(1)
Resolve ==
    /\ pc = "resolve"
    /\ IF HasAttr(function_name)
       THEN /\ func' = Attribute(function_name)
            /\ Goto("call")
       ELSE /\ Exit(1, Append(stdout, NotFoundLine(function_name)), stderr)
            /\ UNCHANGED func
    /\ UNCHANGED <<prog, argv, function_name, x, y, precision, dps,
                   dps_assigned, result, run, prev>>

\* result = func(x)                     (func(x, y) in the binary script)
Call ==
    /\ pc = "call"
    /\ IF Callable(func, Len(CallArgs))
       THEN /\ \E a \in 1..MaxAddr : result' = Return(func, CallArgs, dps, a)
            /\ Goto("print")
       ELSE /\ Raise("TypeError")
            /\ UNCHANGED result
    /\ UNCHANGED <<prog, argv, function_name, x, y, precision, dps,
                   dps_assigned, func, run, prev>>

\* print(result), after which main() returns and the process exits with 0
PrintResult ==
    /\ pc = "print"
    /\ Exit(0, Append(stdout, Str(result, dps)), stderr)
    /\ UNCHANGED <<prog, argv, function_name, x, y, precision, dps,
                   dps_assigned, func, result, run, prev>>

\* The same command line is run again: a new process, whose outcome is to be
\* compared with the outcome of the one before.
Rerun ==
    /\ pc = "exited"
    /\ run < MaxRuns
    /\ run' = run + 1
    /\ prev' = [stdout |-> stdout, exit_code |-> exit_code]
    /\ dps' = StartDps(dps)
    /\ pc' = "check_argc"
    /\ function_name' = Unbound /\ x' = Unbound /\ y' = Unbound
    /\ precision' = Unbound /\ func' = Unbound /\ result' = Unbound
    /\ dps_assigned' = FALSE
    /\ stdout' = <<>> /\ stderr' = <<>> /\ exit_code' = 0
    /\ UNCHANGED <<prog, argv>>

Next ==
    \/ CheckArgc
    \/ BindName
    \/ ParseX
    \/ ParseY
    \/ ParsePrecision
    \/ SetDps
    \/ Resolve
    \/ Call
    \/ PrintResult
    \/ Rerun

Spec == Init /\ [][Next]_vars

(* ------------------------ vocabulary of the claims --------------------- *)

\* Number of positional arguments on the command line.
Positional == Len(argv) - 1

RightCount == \/ prog = "unary" /\ Positional = 3
              \/ prog = "binary" /\ Positional = 4

Arity == IF prog = "unary" THEN 1 ELSE 2

\* The operand texts and the precision text of a command line of the right
\* length, by position.
OperandTexts == IF prog = "unary" THEN <<Arg(2)>> ELSE <<Arg(2), Arg(3)>>

PrecisionText == Arg(Positional)

Malformed == { <<"a", "b", "c">> }

WellFormed == ValueTexts \ Malformed

OperandsWellFormed == \A i \in 1..Arity : OperandTexts[i] \in WellFormed

PositivePrecisions == { <<"2">>, <<"5", "0">> }

IntegerPrecisions == PositivePrecisions \cup { <<"0">>, <<"-", "5">> }

\* The mathematical functions among the names tried, and the catalogue of
\* those taking n operands.
MathFunctions == {"sqrt", "atan2", "log"}

Catalogue(n) == IF n = 1 THEN {"sqrt", "log"} ELSE {"atan2", "log"}

\* Attributes of the library namespace that are no mathematical function.
OtherAttributes == {"workdps", "inf", "mp", "libmp", "__name__"}

Exited == pc = "exited"

Outcome == [stdout |-> stdout, stderr |-> stderr, exit_code |-> exit_code]

\* The Unknown Function Error outcome: the not-found message, exit status 1.
UnknownFunction(nm) ==
    [stdout |-> <<NotFoundLine(nm)>>, stderr |-> <<>>, exit_code |-> 1]

NoEvaluation == pc \notin {"call", "print"} /\ result = Unbound

NoResultLine == \A i \in 1..Len(stdout) : stdout[i].kind # "line"

(* ------------------------------- claims -------------------------------- *)

\* C1: the precision context is set before any operand is constructed: no
\* state has an operand already parsed while mp.dps has not been assigned.
C1_PrecisionBeforeOperands ==
    (x # Unbound \/ y # Unbound) => dps_assigned

\* C2: a name of the other arity's catalogue only, on a command line whose
\* operands and precision are valid, ends in the Unknown Function Error
\* outcome and never reaches the call.
C2_ArityExact ==
    ( /\ RightCount
      /\ OperandsWellFormed
      /\ PrecisionText \in PositivePrecisions
      /\ Arg(1) \in Catalogue(3 - Arity) \ Catalogue(Arity) )
    => /\ NoEvaluation
       /\ Exited => Outcome = UnknownFunction(Arg(1))

\* C3: with the wrong number of arguments the run prints the usage line and
\* exits with 1, and nothing else happens: no precision set, no operand
\* parsed, no function resolved or called, no result printed.
C3_UsageOnly ==
    ~RightCount =>
       /\ pc \in {"check_argc", "exited"}
       /\ ~dps_assigned /\ dps = DefaultDps
       /\ function_name = Unbound /\ x = Unbound /\ y = Unbound
       /\ precision = Unbound /\ func = Unbound /\ result = Unbound
       /\ Exited => Outcome = [stdout |-> <<UsageLine(prog)>>,
                               stderr |-> <<>>, exit_code |-> 1]

C3_Witness ==
    /\ Exited /\ prog = "unary" /\ Positional = 2
    /\ stdout = <<UsageLine("unary")>> /\ exit_code = 1

\* C4: with valid operands and precision, a name that is not in the
\* catalogue of the invoker's arity gives the not-found message with that
\* name and exit status 1; no function is called and no result is printed.
C4_NotFound ==
    ( /\ RightCount
      /\ OperandsWellFormed
      /\ PrecisionText \in IntegerPrecisions
      /\ Arg(1) \notin Catalogue(Arity) )
    => /\ NoEvaluation
       /\ Exited => Outcome = UnknownFunction(Arg(1))

\* C5: a precision that is not a positive integer is fatal: no precision
\* context is set from it, nothing is evaluated, no result is printed and
\* the exit status is not 0.
C5_PrecisionPositive ==
    (RightCount /\ PrecisionText \notin PositivePrecisions)
    => /\ ~dps_assigned
       /\ NoEvaluation
       /\ NoResultLine
       /\ Exited => exit_code # 0

\* C6: a malformed operand is fatal: the run ends with a non-zero status on
\* the uncaught ValueError of the parse, which is not the Unknown Function
\* Error outcome, and the function is never called nor a result printed.
C6_OperandParseError ==
    (RightCount /\ \E i \in 1..Arity : OperandTexts[i] \in Malformed)
    => /\ NoEvaluation
       /\ NoResultLine
       /\ Exited => /\ exit_code # 0
                    /\ stderr = <<"ValueError">>
                    /\ Outcome # UnknownFunction(Arg(1))

C6_Witness ==
    /\ Exited /\ prog = "binary" /\ RightCount
    /\ Arg(2) \in WellFormed /\ Arg(3) \in Malformed
    /\ stderr = <<"ValueError">> /\ exit_code = 1

\* C7: on the success path standard output is exactly one line, the text of
\* the function applied to the operands of the command line in their order,
\* and the exit status is 0; nothing is written before that line.
C7_SuccessOutput ==
    ( /\ RightCount
      /\ OperandsWellFormed
      /\ PrecisionText \in PositivePrecisions
      /\ Arg(1) \in Catalogue(Arity) )
    => /\ stderr = <<>>
       /\ ~Exited => stdout = <<>>
       /\ Exited =>
            /\ exit_code = 0
            /\ x = MpfOf(Arg(2), x.dps)
            /\ prog = "binary" => y = MpfOf(Arg(3), y.dps)
            /\ \E a \in 1..MaxAddr :
                 stdout = <<Str(Return(Attribute(Arg(1)),
                                       IF prog = "unary" THEN <<x>> ELSE <<x, y>>,
                                       IntOf(PrecisionText), a),
                                IntOf(PrecisionText))>>

C7_Witness ==
    /\ Exited /\ exit_code = 0 /\ prog = "binary" /\ Arg(1) = "atan2"
    /\ PrecisionText \in PositivePrecisions
    /\ x # y /\ Len(stdout) = 1

\* C8: a second run of the same command line gives the same standard output
\* and the same exit status as the first.
C8_Deterministic ==
    (Exited /\ run > 1) => /\ stdout = prev.stdout
                           /\ exit_code = prev.exit_code

\* C9: only catalogue functions are resolved: an attribute of the library
\* namespace that is no mathematical function ends in the Unknown Function
\* Error outcome, so whenever the call is attempted func is a callable
\* function of the invoker's arity.
C9_ClosedCatalogue ==
    /\ pc = "call" => func.name \in Catalogue(Arity)
    /\ ( /\ RightCount /\ Exited
         /\ OperandsWellFormed
         /\ PrecisionText \in PositivePrecisions
         /\ Arg(1) \in OtherAttributes )
       => Outcome = UnknownFunction(Arg(1))

\* C10: a run stops at the first invalid step in the order argument count,
\* precision, operands, function name, evaluation: no step after the first
\* invalid one is executed, and the exit status is 0 exactly when every step
\* was completed.
C10_FailFast ==
    /\ ~RightCount =>
          /\ precision = Unbound /\ x = Unbound /\ y = Unbound
          /\ func = Unbound /\ result = Unbound
    /\ (RightCount /\ PrecisionText \notin PositivePrecisions) =>
          /\ x = Unbound /\ y = Unbound
          /\ func = Unbound /\ result = Unbound
    /\ (RightCount /\ ~OperandsWellFormed) =>
          /\ func = Unbound /\ result = Unbound
    /\ (RightCount /\ Arg(1) \notin Catalogue(Arity)) => result = Unbound
    /\ Exited => (exit_code = 0 <=> result # Unbound)

====
